---- MODULE Spec2Model ----
(***************************************************************************)
(* Model of src/clean_claims.py: the cleaning pipeline clean_claims        *)
(* (trim_whitespace, dropna rows, dropna columns, normalize_dates,         *)
(* drop_duplicates, statistics) and the command line run main.             *)
(*                                                                         *)
(* A string is a sequence of one-character strings, so that strip(),       *)
(* lower(), the substring test and the date parse are computed.  A cell    *)
(* is a pair <<kind, text>>, kind one of "na", "str", "num", "bool".       *)
(* A DataFrame is [cols |-> names, rows |-> rows], a row a sequence of     *)
(* cells aligned with cols.                                                *)
(*                                                                         *)
(* Column names are unique after the trim (a collision is left undefined   *)
(* by the specification).  pd.to_datetime is computed cell by cell: each   *)
(* cell is parsed on its own, whatever the other cells of its column hold. *)
(***************************************************************************)
EXTENDS Integers, Sequences, FiniteSets, TLC

\* Longest input table, in rows, of the enumerated inputs.
MaxRows == 3

-----------------------------------------------------------------------------
(* Text *)

Upper == <<"A","B","C","D","E","F","G","H","I","J","K","L","M",
           "N","O","P","Q","R","S","T","U","V","W","X","Y","Z">>
Lower == <<"a","b","c","d","e","f","g","h","i","j","k","l","m",
           "n","o","p","q","r","s","t","u","v","w","x","y","z">>
Digits == <<"0","1","2","3","4","5","6","7","8","9">>

\* str.lower() on one character
LowerChar(c) ==
    IF \E i \in 1..Len(Upper) : Upper[i] = c
    THEN Lower[CHOOSE i \in 1..Len(Upper) : Upper[i] = c]
    ELSE c

\* str.lower()
LowerStr(s) == [i \in 1..Len(s) |-> LowerChar(s[i])]

IsSpace(c) == c \in {" ", "\t"}

RECURSIVE LStrip(_)
LStrip(s) == IF s = <<>> THEN <<>>
             ELSE IF IsSpace(Head(s)) THEN LStrip(Tail(s)) ELSE s

RECURSIVE RStrip(_)
RStrip(s) == IF s = <<>> THEN <<>>
             ELSE IF IsSpace(s[Len(s)]) THEN RStrip(SubSeq(s, 1, Len(s) - 1)) ELSE s

\* str.strip()
Strip(s) == RStrip(LStrip(s))

\* tok in name
Contains(name, tok) ==
    \E i \in 0..(Len(name) - Len(tok)) : SubSeq(name, i + 1, i + Len(tok)) = tok

\* col in df.columns
InSeq(x, s) == \E i \in 1..Len(s) : s[i] = x

IndexOf(x, s) == CHOOSE i \in 1..Len(s) : s[i] = x

-----------------------------------------------------------------------------
(* Cells *)

NA == <<"na", <<>>>>
Str(s) == <<"str", s>>
Num(s) == <<"num", s>>
Bool(s) == <<"bool", s>>

\* pandas isna
IsNA(x) == x[1] = "na"

-----------------------------------------------------------------------------
(* trim_whitespace *)

StripName(c) == Strip(c)

StripCell(x) == IF x[1] = "str" THEN Str(Strip(x[2])) ELSE x

trim_whitespace(d) ==
    [cols |-> [j \in 1..Len(d.cols) |-> StripName(d.cols[j])],
     rows |-> [i \in 1..Len(d.rows) |->
                 [j \in 1..Len(d.cols) |-> StripCell(d.rows[i][j])]]]

-----------------------------------------------------------------------------
(* dropna *)

\* a truthiness test in place of the missing test
RowHasTruthy(r) ==
    \E j \in 1..Len(r) : ~IsNA(r[j]) /\ r[j] \notin {Str(<<>>), Num(<<"0">>), Bool(<<"F">>)}

\* notna(row).any(): the mask of dropna(how="all")
RowHasValue(r) == \E j \in 1..Len(r) : ~IsNA(r[j])

dropna_rows(d) == [cols |-> d.cols, rows |-> SelectSeq(d.rows, RowHasValue)]

\* notna(column).any(): the mask of dropna(axis=1, how="all")
ColHasValue(d, j) == \E i \in 1..Len(d.rows) : ~IsNA(d.rows[i][j])

RECURSIVE KeptCols(_, _)
KeptCols(d, n) ==
    IF n = 0 THEN <<>>
    ELSE IF ColHasValue(d, n) THEN Append(KeptCols(d, n - 1), n)
    ELSE KeptCols(d, n - 1)

dropna_cols(d) ==
    LET keep == KeptCols(d, Len(d.cols))
    IN  [cols |-> [k \in 1..Len(keep) |-> d.cols[keep[k]]],
         rows |-> [i \in 1..Len(d.rows) |->
                     [k \in 1..Len(keep) |-> d.rows[i][keep[k]]]]]

-----------------------------------------------------------------------------
(* guess_date_columns *)

tokens_without_dt == << <<"d","a","t","e">>, <<"d","o","b">>, <<"d","o","s">> >>

tokens == << <<"d","a","t","e">>, <<"d","o","b">>, <<"d","o","s">>, <<"d","t">> >>

NameMatches(c) ==
    LET name == LowerStr(c)
    IN  \E t \in 1..Len(tokens) : Contains(name, tokens[t])

guess_date_columns(columns) == SelectSeq(columns, NameMatches)

-----------------------------------------------------------------------------
(* pd.to_datetime(..., errors="coerce") and .dt.strftime("%Y-%m-%d") *)

NaT == <<>>

IsDigit(c) == \E i \in 1..Len(Digits) : Digits[i] = c

DigitVal(c) == (CHOOSE i \in 1..Len(Digits) : Digits[i] = c) - 1

RECURSIVE ToInt(_)
ToInt(s) == IF s = <<>> THEN 0 ELSE 10 * ToInt(SubSeq(s, 1, Len(s) - 1)) + DigitVal(s[Len(s)])

AllDigits(s) == \A i \in 1..Len(s) : IsDigit(s[i])

IsLeap(y) == (y % 4 = 0 /\ y % 100 # 0) \/ y % 400 = 0

DaysIn(y, m) ==
    IF m = 2 THEN (IF IsLeap(y) THEN 29 ELSE 28)
    ELSE IF m \in {4, 6, 9, 11} THEN 30 ELSE 31

\* a calendar date a Timestamp can hold
ValidDate(y, m, d) ==
    /\ y >= 1678 /\ y <= 2261
    /\ m >= 1 /\ m <= 12
    /\ d >= 1 /\ d <= DaysIn(y, m)

\* the text forms of the enumerated inputs: YYYY-MM-DD, and MM/DD/YYYY
\* (month first; day first when only that reading is a date)
ParseText(s) ==
    IF /\ Len(s) = 10 /\ s[5] = "-" /\ s[8] = "-"
       /\ AllDigits(SubSeq(s, 1, 4)) /\ AllDigits(SubSeq(s, 6, 7))
       /\ AllDigits(SubSeq(s, 9, 10))
    THEN LET y == ToInt(SubSeq(s, 1, 4))
             m == ToInt(SubSeq(s, 6, 7))
             d == ToInt(SubSeq(s, 9, 10))
         IN  IF ValidDate(y, m, d) THEN <<y, m, d>> ELSE NaT
    ELSE IF /\ Len(s) = 10 /\ s[3] = "/" /\ s[6] = "/"
            /\ AllDigits(SubSeq(s, 1, 2)) /\ AllDigits(SubSeq(s, 4, 5))
            /\ AllDigits(SubSeq(s, 7, 10))
    THEN LET a == ToInt(SubSeq(s, 1, 2))
             b == ToInt(SubSeq(s, 4, 5))
             y == ToInt(SubSeq(s, 7, 10))
         IN  IF ValidDate(y, a, b) THEN <<y, a, b>>
             ELSE IF ValidDate(y, b, a) THEN <<y, b, a>>
             ELSE NaT
    ELSE NaT

\* one element of pd.to_datetime(df[col], errors="coerce"): a number counts
\* nanoseconds from the epoch, a boolean and a missing cell are NaT
to_datetime(x) ==
    IF x[1] = "str" THEN ParseText(x[2])
    ELSE IF x[1] = "num" THEN <<1970, 1, 1>>
    ELSE NaT

Pad(n, w) == [k \in 1..w |-> Digits[((n \div (10 ^ (w - k))) % 10) + 1]]

\* "%m/%d/%Y" in place of "%Y-%m-%d"
strftime_us(t) ==
    IF t = NaT THEN NA
    ELSE Str(Pad(t[2], 2) \o <<"/">> \o Pad(t[3], 2) \o <<"/">> \o Pad(t[1], 4))

\* one element of s.dt.strftime("%Y-%m-%d"); NaT gives a missing cell
strftime(t) ==
    IF t = NaT THEN NA
    ELSE Str(Pad(t[1], 4) \o <<"-">> \o Pad(t[2], 2) \o <<"-">> \o Pad(t[3], 2))

NormCell(x) == strftime(to_datetime(x))

\* df[col] = pd.to_datetime(df[col], ...).dt.strftime(...)
NormColumn(d, col) ==
    LET j == IndexOf(col, d.cols)
    IN  [cols |-> d.cols,
         rows |-> [i \in 1..Len(d.rows) |->
                     [k \in 1..Len(d.cols) |->
                        IF k = j THEN NormCell(d.rows[i][k]) ELSE d.rows[i][k]]]]

\* the date_cols normalize_dates works on: the caller's, or the guess
ResolveDateCols(d, dc) ==
    IF ~dc.given \/ Len(dc.names) = 0 THEN guess_date_columns(d.cols) ELSE dc.names

\* the loop of normalize_dates over date_cols[k..]
RECURSIVE NormLoop(_, _, _)
NormLoop(d, cs, k) ==
    IF k > Len(cs) THEN d
    ELSE IF InSeq(cs[k], d.cols) THEN NormLoop(NormColumn(d, cs[k]), cs, k + 1)
    ELSE NormLoop(d, cs, k + 1)

normalize_dates(d, dc) == NormLoop(d, ResolveDateCols(d, dc), 1)

\* the columns the loop assigned to (the if of line 54 taken)
ColsRewritten(d, dc) == SelectSeq(ResolveDateCols(d, dc), LAMBDA c : InSeq(c, d.cols))

-----------------------------------------------------------------------------
(* drop_duplicates().reset_index(drop=True) *)

\* drop_duplicates(keep="last")
RECURSIVE KeepLast(_, _)
KeepLast(rows, acc) ==
    IF rows = <<>> THEN acc
    ELSE IF InSeq(Head(rows), Tail(rows)) THEN KeepLast(Tail(rows), acc)
    ELSE KeepLast(Tail(rows), Append(acc, Head(rows)))

RECURSIVE KeepFirst(_, _)
KeepFirst(rows, acc) ==
    IF rows = <<>> THEN acc
    ELSE IF InSeq(Head(rows), acc) THEN KeepFirst(Tail(rows), acc)
    ELSE KeepFirst(Tail(rows), Append(acc, Head(rows)))

drop_duplicates(d) == [cols |-> d.cols, rows |-> KeepFirst(d.rows, <<>>)]


-----------------------------------------------------------------------------
(* clean_claims as one function of its arguments *)

MakeStats(shape, before, d, dc) ==
    [original_rows |-> shape[1],
     original_cols |-> shape[2],
     rows_after_dropna |-> before,
     rows_after_dedup |-> Len(d.rows),
     final_cols |-> Len(d.cols),
     date_cols_used |-> IF dc.given /\ Len(dc.names) > 0
                        THEN dc.names ELSE guess_date_columns(d.cols)]

Shape(d) == <<Len(d.rows), Len(d.cols)>>

clean_claims(d, dc) ==
    LET n == normalize_dates(dropna_cols(dropna_rows(trim_whitespace(d))), dc)
        u == drop_duplicates(n)
    IN  [df |-> u, stats |-> MakeStats(Shape(d), Len(n.rows), u, dc)]

-----------------------------------------------------------------------------
(* Inputs *)

sDOB == <<"D","O","B">>
sDOBsp == <<" ","D","O","B"," ">>
sName == <<"N","a","m","e">>
sNope == <<"N","o","p","e">>
sAmt == <<"A","m","t">>
sFlag == <<"F","l","a","g">>
sWidth == <<"W","i","d","t","h">>
sNote == <<"N","o","t","e">>
sPatientID == <<"P","a","t","i","e","n","t","I","D">>
sDateOfBirth == <<"D","a","t","e","O","f","B","i","r","t","h">>
sAmount == <<"A","m","o","u","n","t">>
sUS == <<"0","1","/","0","2","/","2","0","2","0">>
sISOsp == <<" ","2","0","2","0","-","0","1","-","0","2"," ">>
sISO2sp == <<" ","2","0","2","0","-","0","3","-","0","4"," ">>
sAbc == <<"a","b","c">>

Absent == [given |-> FALSE, names |-> <<>>]
Given(names) == [given |-> TRUE, names |-> names]

\* A schema: the column names as loaded, the cells each column may hold,
\* and the date_cols arguments tried with it.
Schemas ==
    { [cols |-> <<sDOBsp, sName>>,
       pools |-> << {NA, Str(sUS), Str(sISOsp), Str(sAbc)}, {NA, Str(<<"x">>)} >>,
       args |-> {Absent, Given(<<sDOB>>), Given(<<sDOB, sNope>>), Given(<<sName>>)}],
      [cols |-> <<sAmt, sFlag, sWidth>>,
       pools |-> << {NA, Num(<<"0">>)}, {NA, Bool(<<"F">>)}, {NA, Str(<<" ">>)} >>,
       args |-> {Absent, Given(<<sAmt>>), Given(<<sNope>>)}],
      [cols |-> <<sPatientID, sDateOfBirth, sAmount>>,
       pools |-> << {NA, Str(<<"p">>)}, {NA, Str(sUS)}, {NA, Num(<<"0">>)} >>,
       args |-> {Absent, Given(<<>>)}],
      [cols |-> <<>>, pools |-> <<>>, args |-> {Absent}] }

RECURSIVE RowsOf(_)
RowsOf(pools) ==
    IF pools = <<>> THEN {<<>>}
    ELSE {<<h>> \o t : h \in Head(pools), t \in RowsOf(Tail(pools))}

\* the tables of at most n rows drawn from R
TablesOf(R, n) == UNION {[1..k -> R] : k \in 0..n}

\* 5 rows x 4 columns: row 3 all missing, column Note all missing, rows 1 and
\* 4 the same date in two notations
Example5x4 ==
    [cols |-> <<sName, sDOB, sNote, sAmt>>,
     rows |-> << <<Str(<<"a">>), Str(sUS), NA, Num(<<"0">>)>>,
                 <<Str(<<"b">>), Str(sUS), NA, Num(<<"0">>)>>,
                 <<NA, NA, NA, NA>>,
                 <<Str(<<"a">>), Str(sISOsp), NA, Num(<<"0">>)>>,
                 <<Str(<<"c">>), NA, NA, NA>> >>]

\* columns Name, DOB, Note with DOB "01/02/2020" and " 2020-03-04 "
ExampleDOB ==
    [cols |-> <<sName, sDOB, sNote>>,
     rows |-> << <<Str(<<"a">>), Str(sUS), Str(<<"n">>)>>,
                 <<Str(<<"b">>), Str(sISO2sp), NA>> >>]

Examples ==
    { <<Example5x4, Absent>>, <<Example5x4, Given(<<sDOB>>)>>,
      <<ExampleDOB, Given(<<sDOB>>)>> }

-----------------------------------------------------------------------------
(* State *)

VARIABLES
    pc,            \* position in clean_claims
    input,         \* the df argument of clean_claims
    date_cols,     \* the date_cols argument of clean_claims
    original_shape,
    df,            \* the local df
    trimmed,       \* df after line 66
    elided,        \* df after line 68
    normalized,    \* df after line 69
    rewritten,     \* the columns normalize_dates assigned to
    before_dupes,
    stats,
    run,           \* 1: the first call, 2: the call on the first call's result
    first,         \* the first call's result
    mpc,           \* position in main
    cli,           \* the command line and the file it names
    rc,            \* main's return value
    err,           \* what main printed on stderr
    exc,           \* the exception main caught or let through, "" when none
    out_path,
    out_file       \* the output: "absent", "dir" (its directory made, no file),
                   \* "partial", "complete"

pvars == <<pc, input, date_cols, original_shape, df, trimmed, elided, normalized,
           rewritten, before_dupes, stats, run, first>>
mvars == <<mpc, cli, rc, err, exc, out_path, out_file>>
vars == <<pc, input, date_cols, original_shape, df, trimmed, elided, normalized,
          rewritten, before_dupes, stats, run, first, mpc, cli, rc, err, exc,
          out_path, out_file>>

NoDf == [cols |-> <<>>, rows |-> <<>>]
NoStats == MakeStats(<<0, 0>>, 0, NoDf, Absent)
NoCli == [exists |-> FALSE, stem |-> <<>>, suffix |-> <<>>, sheet |-> FALSE,
          readable |-> FALSE, table |-> NoDf, date_cols |-> <<>>, out |-> <<>>]

MainIdle ==
    /\ mpc = "idle" /\ cli = NoCli /\ rc = -1 /\ err = "" /\ exc = ""
    /\ out_path = <<>> /\ out_file = "absent"

Locals0 ==
    /\ original_shape = <<0, 0>> /\ df = NoDf /\ trimmed = NoDf /\ elided = NoDf
    /\ normalized = NoDf /\ rewritten = <<>> /\ before_dupes = 0 /\ stats = NoStats

Init ==
    /\ \/ \E e \in Examples : input = e[1] /\ date_cols = e[2]
       \/ \E s \in Schemas :
             /\ \E t \in TablesOf(RowsOf(s.pools), MaxRows) :
                   input = [cols |-> s.cols, rows |-> t]
             /\ date_cols \in s.args
    /\ pc = "start" /\ run = 1 /\ first = NoDf
    /\ Locals0
    /\ MainIdle

-----------------------------------------------------------------------------
(* clean_claims, line by line *)

\* lines 64, 66
Trim ==
    /\ pc = "start"
    /\ original_shape' = Shape(input)
    /\ df' = trim_whitespace(input)
    /\ trimmed' = df'
    /\ pc' = "trimmed"
    /\ UNCHANGED <<input, date_cols, elided, normalized, rewritten, before_dupes,
                   stats, run, first, mvars>>

\* line 67
DropRows ==
    /\ pc = "trimmed"
    /\ df' = dropna_rows(df)
    /\ pc' = "rows_dropped"
    /\ UNCHANGED <<input, date_cols, original_shape, trimmed, elided, normalized,
                   rewritten, before_dupes, stats, run, first, mvars>>

\* line 68
DropCols ==
    /\ pc = "rows_dropped"
    /\ df' = dropna_cols(df)
    /\ elided' = df'
    /\ pc' = "cols_dropped"
    /\ UNCHANGED <<input, date_cols, original_shape, trimmed, normalized,
                   rewritten, before_dupes, stats, run, first, mvars>>

\* line 69
Normalize ==
    /\ pc = "cols_dropped"
    /\ df' = normalize_dates(df, date_cols)
    /\ rewritten' = ColsRewritten(df, date_cols)
    /\ normalized' = df'
    /\ pc' = "normalized"
    /\ UNCHANGED <<input, date_cols, original_shape, trimmed, elided,
                   before_dupes, stats, run, first, mvars>>

\* before_dupes taken after the duplicates are dropped
DedupCountsAfter ==
    /\ pc = "normalized"
    /\ df' = drop_duplicates(df)
    /\ before_dupes' = Len(df'.rows)
    /\ pc' = "deduped"
    /\ UNCHANGED <<input, date_cols, original_shape, trimmed, elided, normalized,
                   rewritten, stats, run, first, mvars>>

\* lines 71-73
Dedup ==
    /\ pc = "normalized"
    /\ before_dupes' = Len(df.rows)
    /\ df' = drop_duplicates(df)
    /\ pc' = "deduped"
    /\ UNCHANGED <<input, date_cols, original_shape, trimmed, elided, normalized,
                   rewritten, stats, run, first, mvars>>

\* lines 75-83
Stats ==
    /\ pc = "deduped"
    /\ stats' = MakeStats(original_shape, before_dupes, df, date_cols)
    /\ pc' = "done"
    /\ UNCHANGED <<input, date_cols, original_shape, df, trimmed, elided,
                   normalized, rewritten, before_dupes, run, first, mvars>>

\* the caller cleans the result again, with the same date_cols
Reclean ==
    /\ pc = "done" /\ run = 1
    /\ first' = df
    /\ input' = df
    /\ run' = 2
    /\ pc' = "start"
    /\ original_shape' = <<0, 0>> /\ df' = NoDf /\ trimmed' = NoDf /\ elided' = NoDf
    /\ normalized' = NoDf /\ rewritten' = <<>> /\ before_dupes' = 0
    /\ stats' = NoStats
    /\ UNCHANGED <<date_cols, mvars>>

Next == Trim \/ DropRows \/ DropCols \/ Normalize \/ Dedup \/ Stats \/ Reclean

Spec == Init /\ [][Next]_vars


-----------------------------------------------------------------------------
(* main *)

\* str.split(",")
RECURSIVE SplitComma(_, _, _)
SplitComma(s, cur, acc) ==
    IF s = <<>> THEN Append(acc, cur)
    ELSE IF Head(s) = "," THEN SplitComma(Tail(s), <<>>, Append(acc, cur))
    ELSE SplitComma(Tail(s), Append(cur, Head(s)), acc)

NonBlank(c) == Strip(c) # <<>>

\* line 127: [c.strip() for c in args.date_cols.split(",") if c.strip()] or None
ParseDateCols(arg) ==
    LET parts == SelectSeq(SplitComma(arg, <<>>, <<>>), NonBlank)
        names == [i \in 1..Len(parts) |-> Strip(parts[i])]
    IN  IF Len(names) = 0 THEN Absent ELSE Given(names)

\* load_table's dispatch on path.suffix.lower()
SuffixKind(suffix) ==
    LET x == LowerStr(suffix)
    IN  IF x \in {<<".","x","l","s">>, <<".","x","l","s","x">>} THEN "excel"
        ELSE IF x = <<".","c","s","v">> THEN "csv"
        ELSE "unsupported"

\* what load_table gives main: "raise", a DataFrame ("frame"), or the dict of
\* all sheets that read_excel returns for sheet_name=None ("dict")
LoadOutcome(c) ==
    IF SuffixKind(c.suffix) = "unsupported" \/ ~c.readable THEN "raise"
    ELSE IF SuffixKind(c.suffix) = "excel" /\ ~c.sheet THEN "dict"
    ELSE "frame"

build_output_path(c) ==
    IF c.out # <<>> THEN c.out ELSE <<"c","l","e","a","n","e","d","_">> \o c.stem \o <<".","c","s","v">>

Clis ==
    [exists : BOOLEAN,
     stem : {<<"c","l","a","i","m","s">>},
     suffix : {<<".","c","s","v">>, <<".","C","S","V">>, <<".","x","l","s","x">>, <<".","x","l","s">>, <<".","t","x","t">>},
     sheet : BOOLEAN,
     readable : BOOLEAN,
     table : {ExampleDOB, Example5x4, [cols |-> <<sDOB, sName>>, rows |-> <<>>]},
     date_cols : {<<>>, <<" ","D","O","B"," ",",">>, <<"D","O","B",",","N","o","p","e">>},
     out : {<<>>, <<"o",".","c","s","v">>}]

MainInit ==
    /\ cli \in Clis
    /\ mpc = "start" /\ rc = -1 /\ err = "" /\ exc = ""
    /\ out_path = <<>> /\ out_file = "absent"
    /\ pc = "idle" /\ input = NoDf /\ date_cols = Absent /\ run = 1 /\ first = NoDf
    /\ Locals0

\* lines 120-127
MainArgs ==
    /\ mpc = "start"
    /\ IF ~cli.exists
       THEN /\ err' = "File not found"
            /\ rc' = 1
            /\ mpc' = "exit"
            /\ UNCHANGED date_cols
       ELSE /\ date_cols' = ParseDateCols(cli.date_cols)
            /\ mpc' = "load"
            /\ UNCHANGED <<err, rc>>
    /\ UNCHANGED <<pc, input, original_shape, df, trimmed, elided, normalized,
                   rewritten, before_dupes, stats, run, first, cli, exc, out_path,
                   out_file>>

\* lines 129-133
MainLoad ==
    /\ mpc = "load"
    /\ IF LoadOutcome(cli) = "raise"
       THEN /\ exc' = "load"
            /\ err' = "ERROR reading file"
            /\ rc' = 1
            /\ mpc' = "exit"
            /\ UNCHANGED input
       ELSE /\ input' = cli.table
            /\ mpc' = "clean"
            /\ UNCHANGED <<exc, err, rc>>
    /\ UNCHANGED <<pc, date_cols, original_shape, df, trimmed, elided, normalized,
                   rewritten, before_dupes, stats, run, first, cli, out_path,
                   out_file>>

\* lines 135-137; df.shape of a dict raises AttributeError, which main lets
\* through
MainClean ==
    /\ mpc = "clean"
    /\ IF LoadOutcome(cli) = "dict"
       THEN /\ exc' = "clean"
            /\ mpc' = "raised"
            /\ UNCHANGED <<df, stats, out_path>>
       ELSE /\ df' = clean_claims(input, date_cols).df
            /\ stats' = clean_claims(input, date_cols).stats
            /\ out_path' = build_output_path(cli)
            /\ mpc' = "write"
            /\ UNCHANGED exc
    /\ UNCHANGED <<pc, input, date_cols, original_shape, trimmed, elided,
                   normalized, rewritten, before_dupes, run, first, cli, rc, err,
                   out_file>>

\* the except clause of line 141 without its return
MainWriteNoReturn ==
    /\ mpc = "write"
    /\ \/ /\ exc' = "mkdir" /\ out_file' = "absent"
       \/ /\ exc' = "to_csv" /\ out_file' \in {"dir", "partial"}
       \/ /\ exc' = "" /\ out_file' = "complete"
    /\ err' = IF exc' = "" THEN "" ELSE "ERROR writing output"
    /\ rc' = 0
    /\ mpc' = "exit"
    /\ UNCHANGED <<pvars, cli, out_path>>

\* lines 138-155: mkdir or to_csv may raise; to_csv may have written part of
\* the file by then
MainWrite ==
    /\ mpc = "write"
    /\ \/ /\ exc' = "mkdir" /\ out_file' = "absent"
          /\ err' = "ERROR writing output" /\ rc' = 1
       \/ /\ exc' = "to_csv" /\ out_file' \in {"dir", "partial"}
          /\ err' = "ERROR writing output" /\ rc' = 1
       \/ /\ exc' = "" /\ out_file' = "complete"
          /\ err' = "" /\ rc' = 0
    /\ mpc' = "exit"
    /\ UNCHANGED <<pvars, cli, out_path>>

MainNext == MainArgs \/ MainLoad \/ MainClean \/ MainWrite

MainSpec == MainInit /\ [][MainNext]_vars


-----------------------------------------------------------------------------
(* Properties *)

\* the k-th smallest element of a set of numbers
NthOf(S, k) == CHOOSE i \in S : Cardinality({j \in S : j <= i}) = k

ColumnOf(d, j) == [i \in 1..Len(d.rows) |-> d.rows[i][j]]

AllMissingRow(r) == \A j \in 1..Len(r) : r[j] = NA

AllMissingCol(d, j) == \A i \in 1..Len(d.rows) : d.rows[i][j] = NA

Finished == pc = "done"

\* C1: cleaning the cleaned table again with the same date_cols returns the
\* same table, and the second run's statistics show no row or column lost.
C1_Idempotent ==
    (Finished /\ run = 2) =>
        /\ df = first
        /\ stats.original_rows = stats.rows_after_dropna
        /\ stats.rows_after_dropna = stats.rows_after_dedup
        /\ stats.original_cols = stats.final_cols

\* C2: the cleaned table has no row whose every cell is missing and no
\* column whose every cell is missing.
C2_NoEmptyRowOrColumn ==
    Finished =>
        /\ \A i \in 1..Len(df.rows) : ~AllMissingRow(df.rows[i])
        /\ \A j \in 1..Len(df.cols) : ~AllMissingCol(df, j)

\* text of the form YYYY-MM-DD
IsIsoText(x) ==
    /\ x[1] = "str"
    /\ Len(x[2]) = 10
    /\ \A k \in {1, 2, 3, 4, 6, 7, 9, 10} : x[2][k] \in {Digits[n] : n \in 1..10}
    /\ x[2][5] = "-" /\ x[2][8] = "-"

HasNoDigit(x) == \A k \in 1..Len(x[2]) : x[2][k] \notin {Digits[n] : n \in 1..10}

\* C3: in every resolved date column that exists in the table, each cell of
\* the cleaned table is missing or text of the form YYYY-MM-DD; a missing
\* cell stays missing, and a cell that is no date (a boolean, text without a
\* digit) becomes missing.
C3_DateCellsIso ==
    /\ pc \in {"normalized", "deduped", "done"} =>
         \A j \in 1..Len(df.cols) :
            InSeq(df.cols[j], ResolveDateCols(elided, date_cols)) =>
               \A i \in 1..Len(df.rows) :
                  df.rows[i][j] = NA \/ IsIsoText(df.rows[i][j])
    /\ pc = "normalized" =>
         \A j \in 1..Len(df.cols) :
            InSeq(df.cols[j], ResolveDateCols(elided, date_cols)) =>
               \A i \in 1..Len(df.rows) :
                  LET x == elided.rows[i][j]
                  IN  (x[1] \in {"na", "bool"} \/ (x[1] = "str" /\ HasNoDigit(x)))
                         => df.rows[i][j] = NA

C3_Witness ==
    /\ Finished
    /\ \E j \in 1..Len(df.cols) :
          /\ InSeq(df.cols[j], ResolveDateCols(elided, date_cols))
          /\ \E i \in 1..Len(df.rows) : IsIsoText(df.rows[i][j])
          /\ \E i \in 1..Len(elided.rows) :
                elided.rows[i][j] = Str(sAbc) /\ normalized.rows[i][j] = NA
          /\ \E i \in 1..Len(elided.rows) :
                elided.rows[i][j] = Str(sUS) /\ IsIsoText(normalized.rows[i][j])

FirstOccurrences(rows) ==
    {i \in 1..Len(rows) : \A k \in 1..(i - 1) : rows[k] # rows[i]}

\* C4: the rows of the cleaned table are the first occurrences of the
\* distinct rows of the table after date normalization, in their order; no
\* two rows of the cleaned table are equal.
C4_DedupFirstOccurrences ==
    pc \in {"deduped", "done"} =>
        LET F == FirstOccurrences(normalized.rows)
        IN  /\ df.cols = normalized.cols
            /\ Len(df.rows) = Cardinality(F)
            /\ \A k \in 1..Len(df.rows) : df.rows[k] = normalized.rows[NthOf(F, k)]
            /\ \A a, b \in 1..Len(df.rows) : a # b => df.rows[a] # df.rows[b]

C4_Witness ==
    /\ Finished
    /\ Len(normalized.rows) = 3 /\ Len(df.rows) = 2
    /\ normalized.rows[1] = normalized.rows[3]
    /\ elided.rows[1] # elided.rows[3]

\* C5: original_rows and original_cols are the input's shape,
\* rows_after_dropna is the row count after the empty row/column drop,
\* rows_after_dedup and final_cols are the returned table's shape; the 5 x 4
\* example reports (5, 4), 4, 3, 3.
C5_Stats ==
    Finished =>
        /\ stats.original_rows = Len(input.rows)
        /\ stats.original_cols = Len(input.cols)
        /\ stats.rows_after_dropna = Len(elided.rows)
        /\ stats.rows_after_dedup = Len(df.rows)
        /\ stats.final_cols = Len(df.cols)
        /\ input = Example5x4 =>
              /\ stats.original_rows = 5 /\ stats.original_cols = 4
              /\ stats.rows_after_dropna = 4 /\ stats.rows_after_dedup = 3
              /\ stats.final_cols = 3

C5_Witness ==
    /\ Finished /\ input = Example5x4
    /\ \E i \in 1..5 : AllMissingRow(input.rows[i])
    /\ \E j \in 1..4 : AllMissingCol(input, j)

NameHasToken(c) ==
    \E tok \in {<<"d","a","t","e">>, <<"d","o","b">>, <<"d","o","s">>, <<"d","t">>} :
       \E a \in 1..Len(c) : \E b \in a..Len(c) : LowerStr(SubSeq(c, a, b)) = tok

\* C6: with date_cols supplied, exactly the supplied names that are columns
\* of the table are normalized; with none supplied (absent or empty), a
\* column is normalized iff its lowercased name contains "date", "dob", "dos"
\* or "dt"; every other column is left as it was.  For PatientID,
\* DateOfBirth, Amount that is DateOfBirth alone.
C6_DateColumnResolution ==
    pc = "normalized" =>
        /\ \A j \in 1..Len(elided.cols) :
              LET c == elided.cols[j]
                  isDate == IF date_cols.given /\ Len(date_cols.names) > 0
                            THEN InSeq(c, date_cols.names)
                            ELSE NameHasToken(c)
              IN  /\ InSeq(c, rewritten) <=> isDate
                  /\ ColumnOf(normalized, j) =
                        IF isDate
                        THEN [i \in 1..Len(elided.rows) |-> NormCell(elided.rows[i][j])]
                        ELSE ColumnOf(elided, j)
        /\ \A k \in 1..Len(rewritten) : InSeq(rewritten[k], elided.cols)
        /\ (elided.cols = <<sPatientID, sDateOfBirth, sAmount>>
               /\ (~date_cols.given \/ date_cols.names = <<>>))
              => rewritten = <<sDateOfBirth>>

C6_Witness ==
    /\ pc = "normalized"
    /\ elided.cols = <<sPatientID, sDateOfBirth, sAmount>>
    /\ date_cols = Given(<<>>)
    /\ rewritten = <<sDateOfBirth>>
    /\ normalized # elided

\* C7: for an input of zero rows the result has zero rows, every row count
\* of the statistics is zero and final_cols equals original_cols.
C7_EmptyInputKeepsColumns ==
    (Finished /\ run = 1 /\ Len(input.rows) = 0) =>
        /\ Len(df.rows) = 0
        /\ stats.original_rows = 0 /\ stats.rows_after_dropna = 0
        /\ stats.rows_after_dedup = 0
        /\ stats.final_cols = stats.original_cols

Elems(s) == {s[i] : i \in 1..Len(s)}

\* C8: date_cols_used lists exactly the columns normalize_dates rewrote.
C8_DateColsUsedAreRewritten ==
    Finished => Elems(stats.date_cols_used) = Elems(rewritten)

IsFalsy(x) == x \in {Str(<<>>), Num(<<"0">>), Bool(<<"F">>)}

BlankOrFalsy(x) == IsFalsy(x) \/ (x[1] = "str" /\ \A k \in 1..Len(x[2]) : x[2][k] = " ")

\* C9: of the trimmed table, exactly the rows whose every cell is missing are
\* removed, then exactly the columns whose every cell in the remaining rows
\* is missing; a row holding a zero, a False or an empty string (or text that
\* was only whitespace before the trim) is kept.
C9_Elision ==
    pc \in {"cols_dropped", "normalized", "deduped", "done"} =>
        LET K == {i \in 1..Len(trimmed.rows) : ~AllMissingRow(trimmed.rows[i])}
            C == {j \in 1..Len(trimmed.cols) :
                     \E i \in K : trimmed.rows[i][j] # NA}
        IN  /\ Len(elided.rows) = Cardinality(K)
            /\ Len(elided.cols) = Cardinality(C)
            /\ \A c \in 1..Len(elided.cols) :
                  elided.cols[c] = trimmed.cols[NthOf(C, c)]
            /\ \A r \in 1..Len(elided.rows) :
                  /\ Len(elided.rows[r]) = Cardinality(C)
                  /\ \A c \in 1..Len(elided.cols) :
                        elided.rows[r][c] = trimmed.rows[NthOf(K, r)][NthOf(C, c)]
            /\ \A i \in 1..Len(input.rows) :
                  (\E j \in 1..Len(input.cols) : BlankOrFalsy(input.rows[i][j]))
                     => /\ i \in K
                        /\ \E r \in 1..Len(elided.rows) : NthOf(K, r) = i

C9_Witness ==
    /\ pc = "cols_dropped" /\ run = 1
    /\ Len(input.rows) = 3 /\ Len(elided.rows) = 2 /\ Len(elided.cols) = 2
    /\ Len(input.cols) = 3
    /\ AllMissingRow(input.rows[2])
    /\ \A j \in 1..Len(elided.cols) : IsFalsy(elided.rows[1][j])
    /\ \E j \in 1..Len(input.cols) : input.rows[3][j] = Str(<<" ">>)

Unsupported(suffix) ==
    LowerStr(suffix) \notin {<<".","c","s","v">>, <<".","x","l","s">>, <<".","x","l","s","x">>}

\* C10: when the input path does not exist, when loading raises (an
\* unsupported extension included) and when writing raises, main prints an
\* error and returns non-zero; it returns 0 only with the cleaned table
\* written; in the first two cases the output is never touched.
C10_MainOutcome ==
    /\ mpc = "exit" =>
          /\ rc \in {0, 1}
          /\ ~cli.exists => (rc # 0 /\ err # "" /\ out_file = "absent")
          /\ (cli.exists /\ (Unsupported(cli.suffix) \/ ~cli.readable))
                => (rc # 0 /\ err # "" /\ out_file = "absent")
          /\ exc \in {"mkdir", "to_csv"} => (rc # 0 /\ err # "")
          /\ rc = 0 =>
                /\ out_file = "complete"
                /\ exc = ""
                /\ df = clean_claims(cli.table, ParseDateCols(cli.date_cols)).df
    /\ mpc # "exit" => rc = -1
    /\ mpc \in {"start", "load", "clean", "write", "raised"} => out_file = "absent"

C10_Witness ==
    /\ mpc = "exit" /\ exc = "to_csv" /\ out_file = "partial" /\ rc = 1
    /\ cli.suffix = <<".","C","S","V">>

====
